---- MODULE Spec2Model ----
(***************************************************************************)
(* Model of the PCF8523 real-time-clock driver (src/pcf8523.py).           *)
(*                                                                         *)
(* The chip is a register file reached through the two bus primitives      *)
(* read(register) and write(register, data).  The codec (bcd_to_int,       *)
(* int_to_bcd), the range validation (assert_clock_inputs) and every       *)
(* driver method are translated from the Python source.                    *)
(***************************************************************************)
EXTENDS Integers, Sequences, FiniteSets, TLC

VARIABLES
    regs,         \* the chip: register address -> byte
    last,         \* the last driver call: its name, arguments, outcome, result
    pc,           \* per driver instance: the bus transaction it is to issue next
    alarm_state,  \* per driver instance: the local of a read-modify-write method
    cur,          \* per driver instance: the method it runs
    hist          \* the register file at the start and the order of the methods

vars == <<regs, last, pc, alarm_state, cur, hist>>

----------------------------------------------------------------------------
(* class Reg: the register map *)

CONTROL_1 == 0
CONTROL_2 == 1
SECONDS == 3
MINUTES == 4
HOURS == 5
DAYS == 6
WEEKDAY == 7
MONTH == 8
YEAR == 9
ALARM_MINUTES == 10
ALARM_HOURS == 11
ALARM_DAY == 12
ALARM_WEEKDAY == 13
CLK_OUT == 15

TimeRegs == {SECONDS, MINUTES, HOURS, DAYS, WEEKDAY, MONTH, YEAR}
AlarmRegs == {ALARM_MINUTES, ALARM_HOURS, ALARM_DAY, ALARM_WEEKDAY}
Registers == {CONTROL_1, CONTROL_2} \cup TimeRegs \cup AlarmRegs \cup {CLK_OUT}

(* magic bytes *)
ALARM_IGNORE == 128
RTC_RESET == 88
CLOCK_CLK_OUT_FREQ_32_DOT_768KHZ == 128
CLOCK_CLK_OUT_FREQ_1_DOT_024KHZ == 129
CLOCK_CLK_OUT_FREQ_32_KHZ == 130
CLOCK_CLK_OUT_FREQ_1_HZ == 131
CLOCK_CLK_HIGH_IMPEDANCE == 0
IGNORE_LAST_BIT == 127

Byte == 0..255

----------------------------------------------------------------------------
(* Python's None and a supplied value.  An optional argument is either     *)
(* None or Some(v); Val unwraps a supplied value.                          *)

None == <<>>
Some(v) == <<v>>
Val(x) == x[1]

(* Python's & and | on non-negative integers. *)
RECURSIVE BitAnd(_, _)
BitAnd(a, b) ==
    IF a = 0 \/ b = 0 THEN 0
    ELSE (a % 2) * (b % 2) + 2 * BitAnd(a \div 2, b \div 2)

RECURSIVE BitOr(_, _)
BitOr(a, b) ==
    IF a = 0 THEN b
    ELSE IF b = 0 THEN a
    ELSE (IF a % 2 = 1 \/ b % 2 = 1 THEN 1 ELSE 0) + 2 * BitOr(a \div 2, b \div 2)

----------------------------------------------------------------------------
(* The codec.  Python's // and % are floored, as are \div and % here. *)

(* Variant of bcd_to_int with the nibbles exchanged. *)
bcd_to_int_swapped(bcd) == (bcd % 16) * 10 + (bcd \div 16)

bcd_to_int(bcd) == (bcd \div 16) * 10 + (bcd % 16)

(* Variant of int_to_bcd splitting n in base 16 instead of base 10. *)
int_to_bcd_hex(n) == (n \div 16) * 16 + (n % 16)

int_to_bcd(n) == (n \div 10) * 16 + (n % 10)

(* assert_clock_inputs: the asserts run in source order, so the result is   *)
(* "ok" or the message prefix of the first assertion that fails.            *)
(* Variant of assert_clock_inputs accepting hours = 24. *)
assert_clock_inputs_off_by_one(seconds, minutes, hours, days, month, year, weekday) ==
    IF seconds # None /\ ~(0 <= Val(seconds) /\ Val(seconds) <= 59) THEN "invalid seconds"
    ELSE IF minutes # None /\ ~(0 <= Val(minutes) /\ Val(minutes) <= 59) THEN "invalid minutes"
    ELSE IF hours # None /\ ~(0 <= Val(hours) /\ Val(hours) <= 24) THEN "invalid hours"
    ELSE IF days # None /\ ~(1 <= Val(days) /\ Val(days) <= 31) THEN "invalid days"
    ELSE IF month # None /\ ~(1 <= Val(month) /\ Val(month) <= 12) THEN "invalid month"
    ELSE IF year # None /\ ~(0 <= Val(year) /\ Val(year) <= 99) THEN "invalid year"
    ELSE IF weekday # None /\ ~(1 <= Val(weekday) /\ Val(weekday) <= 7) THEN "invalid weekday"
    ELSE "ok"

assert_clock_inputs(seconds, minutes, hours, days, month, year, weekday) ==
    IF seconds # None /\ ~(0 <= Val(seconds) /\ Val(seconds) <= 59) THEN "invalid seconds"
    ELSE IF minutes # None /\ ~(0 <= Val(minutes) /\ Val(minutes) <= 59) THEN "invalid minutes"
    ELSE IF hours # None /\ ~(0 <= Val(hours) /\ Val(hours) <= 23) THEN "invalid hours"
    ELSE IF days # None /\ ~(1 <= Val(days) /\ Val(days) <= 31) THEN "invalid days"
    ELSE IF month # None /\ ~(1 <= Val(month) /\ Val(month) <= 12) THEN "invalid month"
    ELSE IF year # None /\ ~(0 <= Val(year) /\ Val(year) <= 99) THEN "invalid year"
    ELSE IF weekday # None /\ ~(1 <= Val(weekday) /\ Val(weekday) <= 7) THEN "invalid weekday"
    ELSE "ok"

----------------------------------------------------------------------------
(* The bus primitives on a register file rg (PCF8523.write, PCF8523.read). *)

write(rg, register, data) == [rg EXCEPT ![register] = data]

read(rg, register) == rg[register]

(* Read accessors: one register read, the field's mask, BCD decode. *)

read_seconds(rg) == bcd_to_int(BitAnd(read(rg, SECONDS), IGNORE_LAST_BIT))

read_minutes(rg) == bcd_to_int(BitAnd(read(rg, MINUTES), IGNORE_LAST_BIT))

(* Variant of read_hours with the 5-bit mask of read_month. *)
read_hours_narrow(rg) == bcd_to_int(BitAnd(read(rg, HOURS), 31))

read_hours(rg) == bcd_to_int(BitAnd(read(rg, HOURS), 63))

read_day(rg) == bcd_to_int(BitAnd(read(rg, WEEKDAY), 7))

read_date(rg) == bcd_to_int(BitAnd(read(rg, DAYS), 63))

read_month(rg) == bcd_to_int(BitAnd(read(rg, MONTH), 31))

read_year(rg) == bcd_to_int(read(rg, YEAR))

(* read_all: (year, month, date, day, hours, minutes, seconds) *)
read_all(rg) ==
    <<read_year(rg), read_month(rg), read_date(rg), read_day(rg),
      read_hours(rg), read_minutes(rg), read_seconds(rg)>>

(* A call's keyword arguments are a function from the names the caller     *)
(* passed to their values; Arg binds a parameter to the value passed or to  *)
(* the default of the def line.                                             *)
Arg(kw, name, default) == IF name \in DOMAIN kw THEN kw[name] ELSE default

(* A method's outcome: the register file it leaves and what it raised       *)
(* ("ok" when it returned normally).                                        *)
Outcome(rg, raised) == [regs |-> rg, raised |-> raised]

(* write_all: validation first, then one write per supplied field, in the  *)
(* order seconds, minutes, hours, date, month, year, iso_week_day.          *)
write_field(rg, register, field) ==
    IF field # None THEN write(rg, register, int_to_bcd(Val(field))) ELSE rg

(* Variant of write_all checking each field just before it writes it. *)
write_all_validating_as_it_goes(rg, kw) ==
    LET a == [seconds |-> Arg(kw, "seconds", None), minutes |-> Arg(kw, "minutes", None),
              hours |-> Arg(kw, "hours", None), date |-> Arg(kw, "date", None),
              month |-> Arg(kw, "month", None), year |-> Arg(kw, "year", None),
              iso_week_day |-> Arg(kw, "iso_week_day", None)]
        chk(f, lo, hi) == f = None \/ (lo <= Val(f) /\ Val(f) <= hi)
        r1 == write_field(rg, SECONDS, a.seconds)
        r2 == write_field(r1, MINUTES, a.minutes)
        r3 == write_field(r2, HOURS, a.hours)
        r4 == write_field(r3, DAYS, a.date)
        r5 == write_field(r4, MONTH, a.month)
        r6 == write_field(r5, YEAR, a.year)
        r7 == write_field(r6, WEEKDAY, a.iso_week_day)
    IN  IF ~chk(a.seconds, 0, 59) THEN Outcome(rg, "invalid seconds")
        ELSE IF ~chk(a.minutes, 0, 59) THEN Outcome(r1, "invalid minutes")
        ELSE IF ~chk(a.hours, 0, 23) THEN Outcome(r2, "invalid hours")
        ELSE IF ~chk(a.date, 1, 31) THEN Outcome(r3, "invalid days")
        ELSE IF ~chk(a.month, 1, 12) THEN Outcome(r4, "invalid month")
        ELSE IF ~chk(a.year, 0, 99) THEN Outcome(r5, "invalid year")
        ELSE IF ~chk(a.iso_week_day, 1, 7) THEN Outcome(r6, "invalid weekday")
        ELSE Outcome(r7, "ok")

write_all(rg, kw) ==
    LET a == [seconds |-> Arg(kw, "seconds", None), minutes |-> Arg(kw, "minutes", None),
              hours |-> Arg(kw, "hours", None), date |-> Arg(kw, "date", None),
              month |-> Arg(kw, "month", None), year |-> Arg(kw, "year", None),
              iso_week_day |-> Arg(kw, "iso_week_day", None)]
        chk == assert_clock_inputs(a.seconds, a.minutes, a.hours, a.date,
                                   a.month, a.year, a.iso_week_day)
        r1 == write_field(rg, SECONDS, a.seconds)
        r2 == write_field(r1, MINUTES, a.minutes)
        r3 == write_field(r2, HOURS, a.hours)
        r4 == write_field(r3, DAYS, a.date)
        r5 == write_field(r4, MONTH, a.month)
        r6 == write_field(r5, YEAR, a.year)
        r7 == write_field(r6, WEEKDAY, a.iso_week_day)
    IN  IF chk # "ok" THEN Outcome(rg, chk) ELSE Outcome(r7, "ok")

(* The control-bit methods: a read of the control register, then a write   *)
(* of the byte computed from what was read.                                *)

(* Variant of the write half that ignores the byte read. *)
enable_alarm_interrupt_overwrite(rg, state) == write(rg, CONTROL_1, 2)

enable_alarm_interrupt_write(rg, state) == write(rg, CONTROL_1, BitOr(state, 2))

enable_alarm_interrupt(rg) == enable_alarm_interrupt_write(rg, read(rg, CONTROL_1))

disable_alarm_interrupt_write(rg, state) == write(rg, CONTROL_1, BitAnd(state, 253))

disable_alarm_interrupt(rg) == disable_alarm_interrupt_write(rg, read(rg, CONTROL_1))

is_alarm_interrupt_enabled(rg) == BitAnd(read(rg, CONTROL_1), 2) # 0

is_alarm_on(rg) == BitAnd(read(rg, CONTROL_2), 8) # 0

(* Variant of the write half with the mask 0xf0 for 0xf7. *)
turn_alarm_off_write_f0(rg, state) == write(rg, CONTROL_2, BitAnd(state, 240))

turn_alarm_off_write(rg, state) == write(rg, CONTROL_2, BitAnd(state, 247))

turn_alarm_off(rg) == turn_alarm_off_write(rg, read(rg, CONTROL_2))

reset(rg) == write(rg, CONTROL_1, RTC_RESET)

(* Variant of set_clk_out_frequency keeping only the bits of the codes. *)
set_clk_out_frequency_masked(rg, frequency) == write(rg, CLK_OUT, BitAnd(frequency, 131))

set_clk_out_frequency(rg, frequency) == write(rg, CLK_OUT, frequency)

(* clear_alarm: its five writes in order; write number i of 1..5. *)
(* Variant of clear_alarm_write whose loop misses ALARM_WEEKDAY. *)
clear_alarm_write_stopping_early(rg, i) ==
    IF i = 1 THEN write(rg, CONTROL_2, 0)
    ELSE IF i = 2 THEN write(rg, ALARM_MINUTES, ALARM_IGNORE)
    ELSE IF i = 3 THEN write(rg, ALARM_HOURS, ALARM_IGNORE)
    ELSE IF i = 4 THEN write(rg, ALARM_DAY, ALARM_IGNORE)
    ELSE rg

clear_alarm_write(rg, i) ==
    IF i = 1 THEN write(rg, CONTROL_2, 0)
    ELSE IF i = 2 THEN write(rg, ALARM_MINUTES, ALARM_IGNORE)
    ELSE IF i = 3 THEN write(rg, ALARM_HOURS, ALARM_IGNORE)
    ELSE IF i = 4 THEN write(rg, ALARM_DAY, ALARM_IGNORE)
    ELSE write(rg, ALARM_WEEKDAY, ALARM_IGNORE)

clear_alarm(rg) ==
    clear_alarm_write(clear_alarm_write(clear_alarm_write(
        clear_alarm_write(clear_alarm_write(rg, 1), 2), 3), 4), 5)

(* set_alarm: validation, the four alarm bytes, the four writes, then the  *)
(* alarm interrupt is enabled.                                              *)
(* Variant of alarm_byte that sets bit 7 instead of clearing it. *)
alarm_byte_keeping_bit7(field) ==
    IF field # None THEN BitOr(int_to_bcd(Val(field)), ALARM_IGNORE) ELSE ALARM_IGNORE

alarm_byte(field) ==
    IF field # None THEN BitAnd(int_to_bcd(Val(field)), IGNORE_LAST_BIT) ELSE ALARM_IGNORE

set_alarm(rg, kw) ==
    LET a == [min |-> Arg(kw, "min", Some(1)), hour |-> Arg(kw, "hour", None),
              day |-> Arg(kw, "day", None), weekday |-> Arg(kw, "weekday", None)]
        chk == assert_clock_inputs(None, a.min, a.hour, a.day, None, None, a.weekday)
        r1 == write(rg, ALARM_MINUTES, alarm_byte(a.min))
        r2 == write(r1, ALARM_HOURS, alarm_byte(a.hour))
        r3 == write(r2, ALARM_DAY, alarm_byte(a.day))
        r4 == write(r3, ALARM_WEEKDAY, alarm_byte(a.weekday))
    IN  IF chk # "ok" THEN Outcome(rg, chk) ELSE Outcome(enable_alarm_interrupt(r4), "ok")

----------------------------------------------------------------------------
(* The driver as a state machine: one action per method call.  A call is   *)
(* synchronous, so the whole method is one step.  The specifications below  *)
(* group the methods by the registers they touch (time setting and alarm,   *)
(* control bits, clock output, clock read-back), so that each group is      *)
(* explored over wider inputs; SpecConc splits the methods into their bus   *)
(* transactions for two instances sharing the chip.                         *)

NoArgs == <<>>

Returns(op, args, out, ret) ==
    /\ regs' = out.regs
    /\ last' = [op |-> op, args |-> args, raised |-> out.raised, ret |-> ret]
    /\ UNCHANGED <<pc, alarm_state, cur, hist>>

call_write_all(kw) == Returns("write_all", kw, write_all(regs, kw), None)

call_set_alarm(kw) == Returns("set_alarm", kw, set_alarm(regs, kw), None)

call_clear_alarm == Returns("clear_alarm", NoArgs, Outcome(clear_alarm(regs), "ok"), None)

call_enable_alarm_interrupt ==
    Returns("enable_alarm_interrupt", NoArgs, Outcome(enable_alarm_interrupt(regs), "ok"), None)

call_disable_alarm_interrupt ==
    Returns("disable_alarm_interrupt", NoArgs, Outcome(disable_alarm_interrupt(regs), "ok"), None)

call_turn_alarm_off ==
    Returns("turn_alarm_off", NoArgs, Outcome(turn_alarm_off(regs), "ok"), None)

call_reset == Returns("reset", NoArgs, Outcome(reset(regs), "ok"), None)

call_set_clk_out_frequency(frequency) ==
    Returns("set_clk_out_frequency", [frequency |-> frequency],
            Outcome(set_clk_out_frequency(regs, frequency), "ok"), None)

call_is_alarm_interrupt_enabled ==
    Returns("is_alarm_interrupt_enabled", NoArgs, Outcome(regs, "ok"),
            is_alarm_interrupt_enabled(regs))

call_is_alarm_on == Returns("is_alarm_on", NoArgs, Outcome(regs, "ok"), is_alarm_on(regs))

call_read_all == Returns("read_all", NoArgs, Outcome(regs, "ok"), read_all(regs))

call_write(register, data) ==
    Returns("write", [register |-> register, data |-> data],
            Outcome(write(regs, register, data), "ok"), None)

(* Keyword-argument sets: every way of passing or omitting each name, each  *)
(* passed name taking one of the values options[name].                      *)
With(kw, name, value) ==
    [n \in DOMAIN kw \cup {name} |-> IF n = name THEN value ELSE kw[n]]

RECURSIVE KwargsOver(_, _)
KwargsOver(names, options) ==
    IF names = {} THEN {NoArgs}
    ELSE LET n == CHOOSE x \in names : TRUE
             rest == KwargsOver(names \ {n}, options)
         IN  rest \cup UNION { {With(kw, n, v) : v \in options[n]} : kw \in rest }

Kwargs(options) == KwargsOver(DOMAIN options, options)

(* The construction leaves the chip alone: its registers hold whatever     *)
(* they held.  The runs start from a register file holding one byte b.      *)
NoProcs == <<>>
InitDriver(bytes) ==
    /\ \E b \in bytes : regs = [r \in Registers |-> b]
    /\ last = [op |-> "__init__", args |-> NoArgs, raised |-> "ok", ret |-> None]
    /\ pc = NoProcs /\ alarm_state = NoProcs /\ cur = NoProcs /\ hist = NoProcs

(* --- Spec: time setting and the alarm subsystem, called in any order ---- *)

InitBytes == {0, 253, 255}

WriteAllSmall ==
    { <<>>,
      [seconds |-> Some(45), hours |-> Some(13), iso_week_day |-> Some(4)],
      [seconds |-> Some(45), iso_week_day |-> Some(8)],
      [seconds |-> Some(60), hours |-> Some(13)] }

SetAlarmValid ==
    Kwargs([min |-> {None, Some(30), Some(59)}, hour |-> {Some(23)},
            day |-> {Some(31)}, weekday |-> {Some(7)}])

SetAlarmInvalid ==
    { [min |-> Some(60)],
      [min |-> Some(30), weekday |-> Some(8)],
      [min |-> Some(30), hour |-> Some(24), day |-> Some(31)],
      [day |-> Some(0)] }

Init == InitDriver(InitBytes)

Next ==
    \/ \E kw \in WriteAllSmall : call_write_all(kw)
    \/ \E kw \in SetAlarmValid \cup SetAlarmInvalid : call_set_alarm(kw)
    \/ call_clear_alarm
    \/ call_enable_alarm_interrupt
    \/ call_disable_alarm_interrupt
    \/ call_turn_alarm_off
    \/ call_reset
    \/ call_is_alarm_interrupt_enabled
    \/ call_is_alarm_on

Spec == Init /\ [][Next]_vars

(* --- SpecCtl: the control-bit methods on every byte --------------------- *)

InitCtl == InitDriver(Byte)

NextCtl ==
    \/ call_enable_alarm_interrupt
    \/ call_disable_alarm_interrupt
    \/ call_turn_alarm_off
    \/ call_reset
    \/ call_is_alarm_interrupt_enabled
    \/ call_is_alarm_on

SpecCtl == InitCtl /\ [][NextCtl]_vars

(* --- SpecClk: set_clk_out_frequency on every byte ----------------------- *)

InitClk == InitDriver(InitBytes)

NextClk == \E frequency \in Byte : call_set_clk_out_frequency(frequency)

SpecClk == InitClk /\ [][NextClk]_vars

(* --- SpecTime: setting and reading the clock ---------------------------- *)

TimeNames == {"seconds", "minutes", "hours", "date", "month", "year", "iso_week_day"}

Lowest ==
    [seconds |-> 0, minutes |-> 0, hours |-> 0, date |-> 1, month |-> 1, year |-> 0,
     iso_week_day |-> 1]

Highest ==
    [seconds |-> 59, minutes |-> 59, hours |-> 23, date |-> 31, month |-> 12, year |-> 99,
     iso_week_day |-> 7]

Example ==
    [seconds |-> 45, minutes |-> 30, hours |-> 13, date |-> 15, month |-> 6, year |-> 23,
     iso_week_day |-> 4]

AllPassed(t) == [n \in TimeNames |-> Some(t[n])]

WriteAllArgs ==
    {NoArgs, AllPassed(Lowest), AllPassed(Highest), AllPassed(Example)}
    \cup { [m \in {n} |-> Some(Highest[n])] : n \in TimeNames }
    \cup { [m \in TimeNames \ {n} |-> Some(Example[m])] : n \in {"hours", "month", "year"} }
    \cup { With(AllPassed(Example), n, Some(Highest[n] + 1)) : n \in {"seconds", "date", "iso_week_day"} }
    \cup { With(AllPassed(Example), n, Some(Lowest[n] - 1)) : n \in {"minutes", "month"} }

RawWrites == {<<SECONDS, 127>>, <<WEEKDAY, 0>>}

TimeBytes == {0, 255}

InitTime == InitDriver(TimeBytes)

NextTime ==
    \/ \E kw \in WriteAllArgs : call_write_all(kw)
    \/ call_read_all
    \/ \E w \in RawWrites : call_write(w[1], w[2])

SpecTime == InitTime /\ [][NextTime]_vars

(* --- SpecCodec: the pure functions, each applied once to a drawn input -- *)

MaxN == 120

AssertNames == {"seconds", "minutes", "hours", "days", "month", "year", "weekday"}

AssertLowest ==
    [seconds |-> 0, minutes |-> 0, hours |-> 0, days |-> 1, month |-> 1, year |-> 0,
     weekday |-> 1]

AssertHighest ==
    [seconds |-> 59, minutes |-> 59, hours |-> 23, days |-> 31, month |-> 12, year |-> 99,
     weekday |-> 7]

AssertArgs ==
    UNION { {[m \in {n} |-> Some(v)] : v \in (0 - 1)..MaxN} : n \in AssertNames }
    \cup {[m \in {n} |-> None] : n \in AssertNames}
    \cup Kwargs([n \in AssertNames |-> {Some(AssertHighest[n]), Some(AssertHighest[n] + 1)}])
    \cup Kwargs([n \in AssertNames |-> {Some(AssertLowest[n]), Some(AssertLowest[n] - 1)}])

Pending(op, args) == [op |-> op, args |-> args, raised |-> "pending", ret |-> None]

InitCodec ==
    /\ regs = [r \in Registers |-> 0]
    /\ \/ \E n \in 0..MaxN : last = Pending("int_to_bcd", [n |-> n])
       \/ \E bcd \in Byte : last = Pending("bcd_to_int", [bcd |-> bcd])
       \/ \E kw \in AssertArgs : last = Pending("assert_clock_inputs", kw)
    /\ pc = NoProcs /\ alarm_state = NoProcs /\ cur = NoProcs /\ hist = NoProcs

eval_int_to_bcd ==
    /\ last.op = "int_to_bcd" /\ last.raised = "pending"
    /\ last' = [last EXCEPT !.raised = "ok", !.ret = int_to_bcd(last.args.n)]
    /\ UNCHANGED <<regs, pc, alarm_state, cur, hist>>

eval_bcd_to_int ==
    /\ last.op = "bcd_to_int" /\ last.raised = "pending"
    /\ last' = [last EXCEPT !.raised = "ok", !.ret = bcd_to_int(last.args.bcd)]
    /\ UNCHANGED <<regs, pc, alarm_state, cur, hist>>

eval_assert_clock_inputs ==
    /\ last.op = "assert_clock_inputs" /\ last.raised = "pending"
    /\ LET kw == last.args
       IN  last' = [last EXCEPT !.raised =
                       assert_clock_inputs(Arg(kw, "seconds", None), Arg(kw, "minutes", None),
                                           Arg(kw, "hours", None), Arg(kw, "days", None),
                                           Arg(kw, "month", None), Arg(kw, "year", None),
                                           Arg(kw, "weekday", None))]
    /\ UNCHANGED <<regs, pc, alarm_state, cur, hist>>

NextCodec == eval_int_to_bcd \/ eval_bcd_to_int \/ eval_assert_clock_inputs

SpecCodec == InitCodec /\ [][NextCodec]_vars

(* --- SpecConc: two driver instances on one chip, no lock ---------------- *)
(* Each instance runs one method; a step is one bus transaction.  pc[p]     *)
(* counts the transactions the method of p has issued.                      *)

Procs == {1, 2}

RmwMethods == {"enable_alarm_interrupt", "disable_alarm_interrupt", "turn_alarm_off"}

Transactions(method) ==
    CASE method \in RmwMethods -> 2
      [] method = "reset" -> 1
      [] method = "clear_alarm" -> 5

RmwRegister(method) == IF method = "turn_alarm_off" THEN CONTROL_2 ELSE CONTROL_1

RmwWrite(method, rg, state) ==
    CASE method = "enable_alarm_interrupt" -> enable_alarm_interrupt_write(rg, state)
      [] method = "disable_alarm_interrupt" -> disable_alarm_interrupt_write(rg, state)
      [] method = "turn_alarm_off" -> turn_alarm_off_write(rg, state)

Running(p) == cur[p] # "idle" /\ pc[p] < Transactions(cur[p])

Finished(p) == cur[p] # "idle" /\ pc[p] = Transactions(cur[p])

ConcBytes == {0, 253, 255}

InitConc ==
    /\ \E b \in ConcBytes : regs = [r \in Registers |-> b]
    /\ last = [op |-> "__init__", args |-> NoArgs, raised |-> "ok", ret |-> None]
    /\ pc = [p \in Procs |-> 0]
    /\ alarm_state = [p \in Procs |-> None]
    /\ cur = [p \in Procs |-> "idle"]
    /\ hist = [regs0 |-> regs, finished |-> <<>>, serial |-> TRUE]

(* The first transaction of a method: the call begins. *)
Begins(p, method) ==
    /\ cur[p] = "idle"
    /\ cur' = [cur EXCEPT ![p] = method]
    /\ pc' = [pc EXCEPT ![p] = 1]

(* A later transaction of the method in progress. *)
Continues(p, method) ==
    /\ cur[p] = method /\ Running(p)
    /\ cur' = cur
    /\ pc' = [pc EXCEPT ![p] = pc[p] + 1]

Tracks(p) ==
    hist' = [hist EXCEPT
               !.serial = IF cur[p] = "idle"
                          THEN hist.serial /\ \A q \in Procs \ {p} : ~Running(q)
                          ELSE hist.serial,
               !.finished = IF pc'[p] = Transactions(cur'[p])
                            THEN Append(hist.finished, p) ELSE hist.finished]

rmw_read(p, method) ==
    /\ Begins(p, method)
    /\ alarm_state' = [alarm_state EXCEPT ![p] = read(regs, RmwRegister(method))]
    /\ Tracks(p)
    /\ UNCHANGED <<regs, last>>

rmw_write(p) ==
    /\ cur[p] \in RmwMethods
    /\ Continues(p, cur[p])
    /\ regs' = RmwWrite(cur[p], regs, alarm_state[p])
    /\ Tracks(p)
    /\ UNCHANGED <<alarm_state, last>>

reset_write(p) ==
    /\ Begins(p, "reset")
    /\ regs' = reset(regs)
    /\ Tracks(p)
    /\ UNCHANGED <<alarm_state, last>>

clear_alarm_first_write(p) ==
    /\ Begins(p, "clear_alarm")
    /\ regs' = clear_alarm_write(regs, 1)
    /\ Tracks(p)
    /\ UNCHANGED <<alarm_state, last>>

clear_alarm_next_write(p) ==
    /\ Continues(p, "clear_alarm")
    /\ regs' = clear_alarm_write(regs, pc[p] + 1)
    /\ Tracks(p)
    /\ UNCHANGED <<alarm_state, last>>

NextConc ==
    \E p \in Procs :
        \/ \E method \in RmwMethods : rmw_read(p, method)
        \/ rmw_write(p)
        \/ reset_write(p)
        \/ clear_alarm_first_write(p)
        \/ clear_alarm_next_write(p)

SpecConc == InitConc /\ [][NextConc]_vars

----------------------------------------------------------------------------
(* The documented domain of each field, by parameter name. *)
FieldDomain ==
    [seconds |-> 0..59, minutes |-> 0..59, hours |-> 0..23, date |-> 1..31,
     month |-> 1..12, year |-> 0..99, iso_week_day |-> 1..7,
     min |-> 0..59, hour |-> 0..23, day |-> 1..31, weekday |-> 1..7, days |-> 1..31]

Passed(kw, n) == n \in DOMAIN kw /\ kw[n] # None

SomeFieldOutOfDomain(kw) ==
    \E n \in DOMAIN kw : kw[n] # None /\ Val(kw[n]) \notin FieldDomain[n]

(* C1: a write_all or set_alarm call with at least one passed field outside *)
(* its domain raises, and every chip register holds after the call the      *)
(* value it held before it.                                                 *)
C1_RejectionIsAllOrNothing ==
    [][ (last'.op \in {"write_all", "set_alarm"} /\ SomeFieldOutOfDomain(last'.args))
            => (last'.raised # "ok" /\ regs' = regs) ]_vars

(* C1 witness: write_all was rejected although seconds, first in the write *)
(* order, was passed and valid.                                             *)
C1_Witness ==
    /\ last.op = "write_all" /\ last.raised # "ok"
    /\ Passed(last.args, "seconds") /\ Val(last.args.seconds) \in 0..59

(* The alarm register of each set_alarm parameter. *)
AlarmRegOf ==
    [min |-> ALARM_MINUTES, hour |-> ALARM_HOURS, day |-> ALARM_DAY, weekday |-> ALARM_WEEKDAY]

AlarmNames == {"min", "hour", "day", "weekday"}

(* C5 as stated: after a successful set_alarm every passed field's register *)
(* holds int_to_bcd(value) & 0x7F, every other alarm register holds 0x80,   *)
(* and control-1 is its old value with bit 1 set.                           *)
C5_Original ==
    [][ (last'.op = "set_alarm" /\ last'.raised = "ok") =>
          /\ \A n \in AlarmNames :
                regs'[AlarmRegOf[n]] =
                    IF Passed(last'.args, n)
                    THEN BitAnd(int_to_bcd(Val(last'.args[n])), 127)
                    ELSE 128
          /\ regs'[CONTROL_1] = BitOr(regs[CONTROL_1], 2) ]_vars

(* C5 amended: an omitted min takes its default 1, so its register holds    *)
(* 0x01; otherwise as stated: each field that is not None leaves            *)
(* int_to_bcd(value) & 0x7F, with bit 7 clear, each None field leaves 0x80, *)
(* and control-1 is its old value with bit 1 set.                           *)
C5_SetAlarmWritesAllFour ==
    [][ (last'.op = "set_alarm" /\ last'.raised = "ok") =>
          /\ \A n \in AlarmNames :
                LET v == IF n = "min" /\ n \notin DOMAIN last'.args THEN Some(1)
                         ELSE IF n \in DOMAIN last'.args THEN last'.args[n]
                         ELSE None
                IN  IF v # None
                    THEN /\ regs'[AlarmRegOf[n]] = BitAnd(int_to_bcd(Val(v)), 127)
                         /\ regs'[AlarmRegOf[n]] < 128
                    ELSE regs'[AlarmRegOf[n]] = 128
          /\ regs'[CONTROL_1] = BitOr(regs[CONTROL_1], 2)
          /\ \A r \in Registers \ (AlarmRegs \cup {CONTROL_1}) : regs'[r] = regs[r] ]_vars

(* C5 witness: set_alarm(min=30) alone succeeded: minute 0x30, the others   *)
(* 0x80, alarm interrupt enabled.                                           *)
C5_Witness ==
    /\ last.op = "set_alarm" /\ last.raised = "ok"
    /\ last.args = [min |-> Some(30)]
    /\ regs[ALARM_MINUTES] = 48
    /\ regs[ALARM_HOURS] = 128 /\ regs[ALARM_DAY] = 128 /\ regs[ALARM_WEEKDAY] = 128
    /\ is_alarm_interrupt_enabled(regs)

(* C7: clear_alarm leaves the four alarm registers at 0x80 and control-2 at *)
(* 0x00 (is_alarm_on false) whatever they held, and leaves control-1 and    *)
(* the time registers as they were.                                         *)
C7_ClearAlarmDisarms ==
    [][ last'.op = "clear_alarm" =>
          /\ \A r \in AlarmRegs : regs'[r] = 128
          /\ regs'[CONTROL_2] = 0
          /\ ~is_alarm_on(regs')
          /\ \A r \in TimeRegs \cup {CONTROL_1} : regs'[r] = regs[r] ]_vars

(* C7 witness: clear_alarm has run after the clock was set and the alarm    *)
(* interrupt enabled on a chip that started all-zero.                       *)
C7_Witness ==
    /\ last.op = "clear_alarm"
    /\ regs[CONTROL_1] = 2 /\ regs[SECONDS] = 69
    /\ \A r \in AlarmRegs : regs[r] = 128

(* Bit i of a byte, and "new is old with bit i forced to b, the rest kept". *)
Bit(x, i) == (x \div (2 ^ i)) % 2

OnlyBit(old, new, i, b) ==
    \A k \in 0..7 : Bit(new, k) = (IF k = i THEN b ELSE Bit(old, k))

OnlyRegister(old, new, register) ==
    \A r \in Registers \ {register} : new[r] = old[r]

(* C6: enable_alarm_interrupt sets bit 1 of control-1, disable_alarm_       *)
(* interrupt clears it, turn_alarm_off clears bit 3 of control-2; every     *)
(* other bit of that register and every other register is as before, and    *)
(* the same call made again changes nothing.                                *)
C6_ControlBitOpsTouchOnlyTheirBit ==
    [][ /\ last'.op = "enable_alarm_interrupt" =>
              /\ OnlyBit(regs[CONTROL_1], regs'[CONTROL_1], 1, 1)
              /\ regs'[CONTROL_1] \in Byte
              /\ OnlyRegister(regs, regs', CONTROL_1)
              /\ enable_alarm_interrupt(regs') = regs'
        /\ last'.op = "disable_alarm_interrupt" =>
              /\ OnlyBit(regs[CONTROL_1], regs'[CONTROL_1], 1, 0)
              /\ regs'[CONTROL_1] \in Byte
              /\ OnlyRegister(regs, regs', CONTROL_1)
              /\ disable_alarm_interrupt(regs') = regs'
        /\ last'.op = "turn_alarm_off" =>
              /\ OnlyBit(regs[CONTROL_2], regs'[CONTROL_2], 3, 0)
              /\ regs'[CONTROL_2] \in Byte
              /\ OnlyRegister(regs, regs', CONTROL_2)
              /\ turn_alarm_off(regs') = regs' ]_vars

(* C6 witness: enable_alarm_interrupt has run on control-1 = 0b11111101     *)
(* (the chip started with 0xFD in every register) and left 0b11111111.      *)
C6_Witness ==
    /\ last.op = "enable_alarm_interrupt"
    /\ regs[CONTROL_1] = 255 /\ regs[CONTROL_2] = 253 /\ regs[SECONDS] = 253

FrequencyCodes ==
    {CLOCK_CLK_OUT_FREQ_32_DOT_768KHZ, CLOCK_CLK_OUT_FREQ_1_DOT_024KHZ,
     CLOCK_CLK_OUT_FREQ_32_KHZ, CLOCK_CLK_OUT_FREQ_1_HZ, CLOCK_CLK_HIGH_IMPEDANCE}

ReadField(n, rg) ==
    CASE n = "seconds" -> read_seconds(rg)
      [] n = "minutes" -> read_minutes(rg)
      [] n = "hours" -> read_hours(rg)
      [] n = "date" -> read_date(rg)
      [] n = "month" -> read_month(rg)
      [] n = "year" -> read_year(rg)
      [] n = "iso_week_day" -> read_day(rg)

TimeRegOf ==
    [seconds |-> SECONDS, minutes |-> MINUTES, hours |-> HOURS, date |-> DAYS,
     month |-> MONTH, year |-> YEAR, iso_week_day |-> WEEKDAY]

(* C3: after a successful write_all each passed field reads back as         *)
(* written, each omitted field reads back what it read before and its       *)
(* register is untouched; when all seven are passed read_all returns        *)
(* (year, month, date, weekday, hours, minutes, seconds) as written.        *)
C3_WriteAllReadAllRoundTrip ==
    [][ (last'.op = "write_all" /\ last'.raised = "ok") =>
          /\ \A n \in TimeNames :
                IF Passed(last'.args, n)
                THEN ReadField(n, regs') = Val(last'.args[n])
                ELSE /\ ReadField(n, regs') = ReadField(n, regs)
                     /\ regs'[TimeRegOf[n]] = regs[TimeRegOf[n]]
          /\ (\A n \in TimeNames : Passed(last'.args, n)) =>
                read_all(regs') =
                    <<Val(last'.args.year), Val(last'.args.month), Val(last'.args.date),
                      Val(last'.args.iso_week_day), Val(last'.args.hours),
                      Val(last'.args.minutes), Val(last'.args.seconds)>> ]_vars

(* C3 witness: the example of the specification was written and reads back. *)
C3_Witness ==
    /\ last.op = "write_all" /\ last.raised = "ok"
    /\ last.args = AllPassed(Example)
    /\ read_all(regs) = <<23, 6, 15, 4, 13, 30, 45>>

(* Every read accessor returns a value of its field's domain. *)
DecodedInRange(rg) == \A n \in TimeNames : ReadField(n, rg) \in FieldDomain[n]

(* C10 as stated: in every state every read accessor returns a value of its *)
(* field's domain.                                                          *)
C10_Original == DecodedInRange(regs)

(* C10 amended: the read accessors return values of their domains after a   *)
(* successful write_all that passed all seven fields, and write_all keeps   *)
(* it so: a write_all call, rejected or not, made when every accessor is in *)
(* range leaves every accessor in range.  Bytes the registers hold          *)
(* otherwise decode as they are; the masks only bound the result            *)
(* (seconds and minutes by 85, hours and date by 45, month by 25, year by   *)
(* 165, weekday by 7).                                                      *)
C10_DecodedRangeKeptByWriteAll ==
    [][ /\ ( /\ last'.op = "write_all"
              /\ \/ DecodedInRange(regs)
                 \/ (last'.raised = "ok" /\ \A n \in TimeNames : Passed(last'.args, n)) )
            => DecodedInRange(regs')
        /\ read_seconds(regs') \in 0..85 /\ read_minutes(regs') \in 0..85
        /\ read_hours(regs') \in 0..45 /\ read_date(regs') \in 0..45
        /\ read_month(regs') \in 0..25 /\ read_year(regs') \in 0..165
        /\ read_day(regs') \in 0..7 ]_vars

(* C10 witness: a partial write_all (seconds := 59 alone) was made on a     *)
(* clock that was in range, and it is still in range.                       *)
C10_Witness ==
    /\ last.op = "write_all" /\ last.raised = "ok"
    /\ last.args = [seconds |-> Some(59)]
    /\ read_seconds(regs) = 59 /\ read_minutes(regs) = 30
    /\ DecodedInRange(regs)

(* C2: assert_clock_inputs raises exactly when some passed field is outside *)
(* its domain; fields not passed, or passed as None, are ignored.           *)
C2_AssertClockInputsExact ==
    (last.op = "assert_clock_inputs" /\ last.raised # "pending") =>
        (last.raised # "ok" <=> SomeFieldOutOfDomain(last.args))

(* C2 witness: days=32 was rejected although seconds=59, checked before it, *)
(* is a valid boundary value.                                               *)
C2_Witness ==
    /\ last.op = "assert_clock_inputs"
    /\ last.args = [seconds |-> Some(59), days |-> Some(32)]
    /\ last.raised = "invalid days"

(* C4: for n in 0..99, int_to_bcd(n) is a byte in 0x00..0x99 with high      *)
(* nibble n div 10 and low nibble n mod 10, and bcd_to_int turns it back    *)
(* into n.                                                                  *)
C4_BcdRoundTrip ==
    (last.op = "int_to_bcd" /\ last.raised = "ok" /\ last.args.n \in 0..99) =>
        /\ bcd_to_int(last.ret) = last.args.n
        /\ last.ret \in 0..153
        /\ last.ret \div 16 = last.args.n \div 10 /\ last.ret \div 16 \in 0..9
        /\ last.ret % 16 = last.args.n % 10 /\ last.ret % 16 \in 0..9

(* C4 witness: int_to_bcd(59) returned 0x59. *)
C4_Witness ==
    last.op = "int_to_bcd" /\ last.raised = "ok" /\ last.args.n = 59 /\ last.ret = 89

(* The register file a method leaves when nothing else runs meanwhile. *)
Alone(method, rg) ==
    CASE method = "enable_alarm_interrupt" -> enable_alarm_interrupt(rg)
      [] method = "disable_alarm_interrupt" -> disable_alarm_interrupt(rg)
      [] method = "turn_alarm_off" -> turn_alarm_off(rg)
      [] method = "reset" -> reset(rg)
      [] method = "clear_alarm" -> clear_alarm(rg)

InOrder(first, second) == Alone(cur[second], Alone(cur[first], hist.regs0))

BothFinished == \A p \in Procs : Finished(p)

RmwBit(method) == IF method = "turn_alarm_off" THEN 3 ELSE 1

RmwBitValue(method) == IF method = "enable_alarm_interrupt" THEN 1 ELSE 0

(* C9: a read-modify-write method writes the byte computed from what it     *)
(* read, however stale: when it is the last to finish, its control register *)
(* is the byte it read with its one bit changed.  When the two methods are  *)
(* serialized (the second begins after the first has finished) the chip     *)
(* ends as if they had run one after the other in that order.               *)
C9_StaleWriteUnlessSerialized ==
    BothFinished =>
        LET first == hist.finished[1]
            second == hist.finished[2]
        IN  /\ cur[second] \in RmwMethods =>
                  OnlyBit(alarm_state[second], regs[RmwRegister(cur[second])],
                          RmwBit(cur[second]), RmwBitValue(cur[second]))
            /\ hist.serial => regs = InOrder(first, second)

(* C9 witness: the lost update.  reset wrote 0x58 to control-1 between the  *)
(* read and the write of enable_alarm_interrupt; the chip ends in neither   *)
(* serial outcome, control-1 holding the stale byte with bit 1 set.         *)
C9_Witness ==
    /\ BothFinished
    /\ cur[1] = "enable_alarm_interrupt" /\ cur[2] = "reset"
    /\ ~hist.serial
    /\ regs # InOrder(1, 2) /\ regs # InOrder(2, 1)
    /\ alarm_state[1] = hist.regs0[CONTROL_1]
    /\ OnlyBit(hist.regs0[CONTROL_1], regs[CONTROL_1], 1, 1)

====
